---- MODULE Spec2Model ----
(***************************************************************************)
(* Model of cirq.google.engine.calibration.Calibration: the construction   *)
(* pass over the raw metric records (_compute_metric_dict), the mapping    *)
(* protocol (__getitem__, __iter__, __len__) and heatmap.                  *)
(*                                                                         *)
(* Python values are represented as follows.                               *)
(*   str used as text to be parsed : tuple of one-character strings        *)
(*   str used as a dict key        : a TLA+ string                         *)
(*   dict with insertion order     : tuple of <<key, value>> pairs         *)
(*   dict object held by reference : an index into heap (a bucket is a     *)
(*                                   function from qubit tuples to lists)  *)
(*   GridQubit(row, col)           : <<row, col>>                          *)
(* Exception names are Python's: TypeError is the spec's InvalidKeyKind,   *)
(* KeyError its MetricNotFound, AssertionError its DuplicateGlobalMetric   *)
(* (during construction) and HeatmapShapeError (in heatmap), ValueError    *)
(* the qubit-identifier parser's failure.                                  *)
(***************************************************************************)
EXTENDS Integers, Sequences, FiniteSets, TLC

\* Longest record sequence of a payload.
MaxRecords == 3
\* Longest record sequence of a payload whose buckets a caller then changes.
MaxAliasRecords == 2
\* How many times a caller changes a bucket it was handed.
MaxMutations == 1
\* How many iterators a caller asks for.
MaxIters == 2

VARIABLES
    calibration,   \* the constructor's argument: [timestampMs, metrics]
    pc,            \* "loop" (inside _compute_metric_dict), "built", "failed"
    i,             \* index of the next record of the for loop
    results,       \* the local defaultdict of _compute_metric_dict: name -> bucket reference
    heap,          \* the bucket objects, by reference
    timestamp,     \* self.timestamp
    _metric_dict,  \* self._metric_dict (empty until _compute_metric_dict returns)
    err,           \* the exception that ended construction, or "none"
    op,            \* the last call made on the built Calibration
    ret,           \* what that call returned or raised
    it,            \* the iterator last returned by __iter__
    yielded,       \* the names that iterator has produced so far
    muts,          \* how many times a caller changed a bucket it was handed
    callerView     \* the bucket contents the caller last wrote, and under which name

vars == <<calibration, pc, i, results, heap, timestamp, _metric_dict, err,
          op, ret, it, yielded, muts, callerView>>

----------------------------------------------------------------------------
(* Inputs *)

Names == {"t1", "xeb"}

\* Target strings as they appear in a report.
T_q00  == <<"q", "0", "_", "0">>
T_00   == <<"0", "_", "0">>
T_q01  == <<"q", "0", "_", "1">>
T_qq00 == <<"q", "q", "0", "_", "0">>

\* metric['values']: a list of dicts, each dict a list of <<type tag, scalar>>.
V_one == << << <<"double_val", 321>> >> >>
V_two == << << <<"double_val", 321>> >>, << <<"int_val", 7>> >> >>
V_alt == << << <<"int_val", 7>> >> >>

Metric(n, hasT, ts, vs) ==
    [name |-> n, hasTargets |-> hasT, targets |-> ts, values |-> vs]

Records ==
    { Metric("t1", FALSE, <<>>, V_one),
      Metric("t1", TRUE, <<>>, V_two),
      Metric("t1", TRUE, <<T_q00>>, V_one),
      Metric("t1", TRUE, <<T_00>>, V_two),
      Metric("t1", TRUE, <<T_q00, T_q01>>, V_one),
      Metric("t1", TRUE, <<T_q01, T_q00>>, V_one),
      Metric("t1", TRUE, <<T_qq00>>, V_one),
      Metric("xeb", FALSE, <<>>, V_two),
      Metric("xeb", TRUE, <<T_q01>>, V_one),
      Metric("xeb", TRUE, <<T_q00>>, V_alt) }

SeqsUpTo(S, n) == UNION { [1..k -> S] : k \in 0..n }

\* calibration['timestampMs'] as the string "1000".
TimestampMs == <<"1", "0", "0", "0">>

\* Keys a caller passes to __getitem__ and heatmap: three strings (one of
\* them never a metric name) and one key that is not a string.
StrKey(s) == [type |-> "str", v |-> s]
Keys == { StrKey("t1"), StrKey("xeb"), StrKey("absent"), [type |-> "int", v |-> "t1"] }

NoKey == [type |-> "none", v |-> ""]
NoOp == [name |-> "none", key |-> NoKey]
NoRet == [kind |-> "none", val |-> 0]
NoIter == [active |-> FALSE, pos |-> 0, n |-> 0]
NoView == [name |-> "", bucket |-> <<>>]

----------------------------------------------------------------------------
(* Python built-ins the code uses *)

DigitChars == <<"0", "1", "2", "3", "4", "5", "6", "7", "8", "9">>
IsDigit(c) == \E d \in 1..10 : DigitChars[d] = c
DigitVal(c) == (CHOOSE d \in 1..10 : DigitChars[d] = c) - 1

\* int(s) for a string of decimal digits.
RECURSIVE int(_)
int(s) ==
    IF Len(s) = 0 THEN 0
    ELSE 10 * int(SubSeq(s, 1, Len(s) - 1)) + DigitVal(s[Len(s)])

\* key in d, d[key] for an insertion-ordered dict with string keys.
Contains(d, n) == \E j \in 1..Len(d) : d[j][1] = n
Lookup(d, n) == d[CHOOSE j \in 1..Len(d) : d[j][1] = n][2]
KeySeq(d) == [j \in 1..Len(d) |-> d[j][1]]

\* defaultdict(dict).__getitem__: a missing key gets a new empty dict, which
\* is inserted at the end; the result is the dict, the heap and the reference.
EmptyBucket == [k \in {} |-> <<>>]
DefaultGet(d, h, n) ==
    IF Contains(d, n)
    THEN [dict |-> d, heap |-> h, ref |-> Lookup(d, n)]
    ELSE [dict |-> Append(d, <<n, Len(h) + 1>>),
          heap |-> Append(h, EmptyBucket),
          ref |-> Len(h) + 1]

\* Variant: a repeated key accumulates its values instead of replacing them.
BucketSetExtend(b, k, v) ==
    [x \in (DOMAIN b) \cup {k} |->
        IF x = k THEN (IF k \in DOMAIN b THEN b[k] \o v ELSE v) ELSE b[x]]

\* bucket[k] = v
BucketSet(b, k, v) == [x \in (DOMAIN b) \cup {k} |-> IF x = k THEN v ELSE b[x]]
\* del bucket[k]
BucketDel(b, k) == [x \in (DOMAIN b) \ {k} |-> b[x]]

----------------------------------------------------------------------------
(* Construction *)

\* The values of one dict, in its order.
DictValues(v) == [j \in 1..Len(v) |-> v[j][2]]

\* flat_values = [v[t] for v in metric['values'] for t in v]
RECURSIVE flat_values(_)
flat_values(values) ==
    IF values = <<>> THEN <<>>
    ELSE DictValues(Head(values)) \o flat_values(Tail(values))

\* t[1:] if t.startswith('q') else t
StripQ(t) == IF Len(t) > 0 /\ t[1] = "q" THEN Tail(t) ELSE t

\* devices.GridQubit.from_proto_id: "<row>_<col>" -> GridQubit(row, col),
\* failing on any other string.
from_proto_id(t) ==
    IF Len(t) = 3 /\ IsDigit(t[1]) /\ t[2] = "_" /\ IsDigit(t[3])
    THEN [ok |-> TRUE, qubit |-> <<DigitVal(t[1]), DigitVal(t[3])>>]
    ELSE [ok |-> FALSE, qubit |-> <<0, 0>>]

\* qubits = tuple(GridQubit.from_proto_id(t) for t in targets)
Qubits(targets) == [j \in 1..Len(targets) |-> from_proto_id(StripQ(targets[j])).qubit]
QubitsOk(targets) == \A j \in 1..Len(targets) : from_proto_id(StripQ(targets[j])).ok

\* Variant: only an earlier global entry is refused.
GlobalAllowedOnlyGlobalKey(bucket) == <<>> \notin DOMAIN bucket

\* The assertion of the target-less branch.
GlobalAllowed(bucket) == Cardinality(DOMAIN bucket) = 0

\* One pass of the for loop over a record: the exception it raises, or
\* "none" and the dict and heap it leaves.
ProcessMetric(d, h, metric) ==
    LET name == metric.name
        flat == flat_values(metric.values)
        got  == DefaultGet(d, h, name)
    IN  IF metric.hasTargets
        THEN IF ~QubitsOk(metric.targets)
             THEN [raised |-> "ValueError", dict |-> d, heap |-> h]
             ELSE [raised |-> "none", dict |-> got.dict,
                   heap |-> [got.heap EXCEPT ![got.ref] =
                                BucketSet(@, Qubits(metric.targets), flat)]]
        ELSE IF ~GlobalAllowed(got.heap[got.ref])
             THEN [raised |-> "AssertionError", dict |-> got.dict, heap |-> got.heap]
             ELSE [raised |-> "none", dict |-> got.dict,
                   heap |-> [got.heap EXCEPT ![got.ref] = BucketSet(@, <<>>, flat)]]

\* Variant: a failing record is skipped and the loop goes on.
AfterRecordSwallow(raised) == "loop"

\* Where the loop goes after a record: on, or out with the exception.
AfterRecord(raised) == IF raised = "none" THEN "loop" ELSE "failed"

Init ==
    /\ calibration \in [timestampMs : {TimestampMs},
                        metrics : SeqsUpTo(Records, MaxRecords)]
    /\ pc = "loop"
    /\ i = 1
    /\ results = <<>>
    /\ heap = <<>>
    /\ timestamp = int(calibration.timestampMs)
    /\ _metric_dict = <<>>
    /\ err = "none"
    /\ op = NoOp
    /\ ret = NoRet
    /\ it = NoIter
    /\ yielded = <<>>
    /\ muts = 0
    /\ callerView = NoView

\* for metric in metrics: ... (one record)
LoopStep ==
    /\ pc = "loop"
    /\ i <= Len(calibration.metrics)
    /\ LET r == ProcessMetric(results, heap, calibration.metrics[i])
       IN  /\ pc' = AfterRecord(r.raised)
           /\ err' = r.raised
           /\ results' = r.dict
           /\ heap' = r.heap
    /\ i' = i + 1
    /\ UNCHANGED <<calibration, timestamp, _metric_dict, op, ret, it, yielded,
                   muts, callerView>>

\* return results; self._metric_dict = ...
Return ==
    /\ pc = "loop"
    /\ i > Len(calibration.metrics)
    /\ _metric_dict' = results
    /\ pc' = "built"
    /\ UNCHANGED <<calibration, i, results, heap, timestamp, err, op, ret, it,
                   yielded, muts, callerView>>

----------------------------------------------------------------------------
(* The mapping protocol and heatmap *)

isinstance_str(key) == key.type = "str"

\* key in self._metric_dict: every key of the dict is a string.
KeyIn(d, key) == isinstance_str(key) /\ Contains(d, key.v)

\* An exception leaving a call: the dict and the heap are as the call left them.
Raise(kind, d, h) == [kind |-> kind, val |-> 0, dict |-> d, heap |-> h]

\* Variant: the membership test comes before the type test.
GetItemLookupFirst(d, h, key) ==
    IF ~KeyIn(d, key) THEN Raise("KeyError", d, h)
    ELSE IF ~isinstance_str(key) THEN Raise("TypeError", d, h)
    ELSE LET got == DefaultGet(d, h, key.v)
         IN  [kind |-> "ok", val |-> got.ref, dict |-> got.dict, heap |-> got.heap]

\* Variant: no membership test, the defaultdict answers every string key.
GetItemNoGuard(d, h, key) ==
    IF ~isinstance_str(key) THEN Raise("TypeError", d, h)
    ELSE LET got == DefaultGet(d, h, key.v)
         IN  [kind |-> "ok", val |-> got.ref, dict |-> got.dict, heap |-> got.heap]

\* Variant: the caller is handed a copy of the bucket.
GetItemCopy(d, h, key) ==
    IF ~isinstance_str(key) THEN Raise("TypeError", d, h)
    ELSE IF ~KeyIn(d, key) THEN Raise("KeyError", d, h)
    ELSE [kind |-> "ok", val |-> Len(h) + 1, dict |-> d,
          heap |-> Append(h, h[Lookup(d, key.v)])]

\* Calibration.__getitem__: the exception raised, or the reference of the
\* bucket returned; self._metric_dict is a defaultdict, so the final
\* subscription goes through DefaultGet.
__getitem__(d, h, key) ==
    IF ~isinstance_str(key) THEN Raise("TypeError", d, h)
    ELSE IF ~KeyIn(d, key) THEN Raise("KeyError", d, h)
    ELSE LET got == DefaultGet(d, h, key.v)
         IN  [kind |-> "ok", val |-> got.ref, dict |-> got.dict, heap |-> got.heap]

\* all(len(k) == 1 for k in metrics.keys())
SingleQubitKeys(metrics) == \A k \in DOMAIN metrics : Len(k) = 1
\* Variant: the second assertion tests the keys again.
SingleValuesKeysAgain(metrics) == \A k \in DOMAIN metrics : Len(k) = 1

\* all(len(k) == 1 for k in metrics.values())
SingleValues(metrics) == \A k \in DOMAIN metrics : Len(metrics[k]) = 1

\* {qubit: value for (qubit,), (value,) in metrics.items()}
value_map(metrics) ==
    [q \in { k[1] : k \in DOMAIN metrics } |-> metrics[<<q>>][1]]

\* Calibration.heatmap; the value map stands for vis.Heatmap(value_map).
heatmap(d, h, key) ==
    LET got == __getitem__(d, h, key)
    IN  IF got.kind # "ok" THEN got
        ELSE LET metrics == got.heap[got.val]
             IN  IF ~SingleQubitKeys(metrics)
                 THEN Raise("AssertionError", got.dict, got.heap)
                 ELSE IF ~SingleValues(metrics)
                 THEN Raise("AssertionError", got.dict, got.heap)
                 ELSE [kind |-> "ok", val |-> value_map(metrics),
                       dict |-> got.dict, heap |-> got.heap]

\* Variant: the entries of all buckets are counted.
RECURSIVE LenEntries(_, _)
LenEntries(d, h) ==
    IF d = <<>> THEN 0
    ELSE Cardinality(DOMAIN h[Head(d)[2]]) + LenEntries(Tail(d), h)

\* Calibration.__len__
__len__(d, h) == Len(d)

\* Variant: one iterator is kept and handed out again.
IterShared(cur) == IF cur.active THEN [cur EXCEPT !.n = @ + 1]
                   ELSE [active |-> TRUE, pos |-> 0, n |-> cur.n + 1]

\* Calibration.__iter__: iter(self._metric_dict), given the iterator
\* returned before (n counts the iterators handed out).
__iter__(cur) == [active |-> TRUE, pos |-> 0, n |-> cur.n + 1]

\* calibration[key]
GetItem(key) ==
    /\ pc = "built"
    /\ LET r == __getitem__(_metric_dict, heap, key)
       IN  /\ ret' = [kind |-> r.kind, val |-> r.val]
           /\ _metric_dict' = r.dict
           /\ heap' = r.heap
    /\ op' = [name |-> "getitem", key |-> key]
    /\ UNCHANGED <<calibration, pc, i, results, timestamp, err, it, yielded,
                   muts, callerView>>

\* calibration.heatmap(key)
Heatmap(key) ==
    /\ pc = "built"
    /\ LET r == heatmap(_metric_dict, heap, key)
       IN  /\ ret' = [kind |-> r.kind, val |-> r.val]
           /\ _metric_dict' = r.dict
           /\ heap' = r.heap
    /\ op' = [name |-> "heatmap", key |-> key]
    /\ UNCHANGED <<calibration, pc, i, results, timestamp, err, it, yielded,
                   muts, callerView>>

\* len(calibration)
Size ==
    /\ pc = "built"
    /\ ret' = [kind |-> "ok", val |-> __len__(_metric_dict, heap)]
    /\ op' = [name |-> "len", key |-> NoKey]
    /\ UNCHANGED <<calibration, pc, i, results, heap, timestamp, _metric_dict,
                   err, it, yielded, muts, callerView>>

\* iter(calibration)
Iterate ==
    /\ pc = "built"
    /\ it.n < MaxIters
    /\ it' = __iter__(it)
    /\ yielded' = <<>>
    /\ ret' = [kind |-> "ok", val |-> 0]
    /\ op' = [name |-> "iter", key |-> NoKey]
    /\ UNCHANGED <<calibration, pc, i, results, heap, timestamp, _metric_dict,
                   err, muts, callerView>>

\* next(...) on the iterator over the dict's keys
IterNext ==
    /\ pc = "built"
    /\ it.active
    /\ IF it.pos < Len(_metric_dict)
       THEN /\ ret' = [kind |-> "ok", val |-> _metric_dict[it.pos + 1][1]]
            /\ yielded' = Append(yielded, _metric_dict[it.pos + 1][1])
            /\ it' = [it EXCEPT !.pos = @ + 1]
       ELSE /\ ret' = [kind |-> "StopIteration", val |-> 0]
            /\ UNCHANGED <<it, yielded>>
    /\ op' = [name |-> "next", key |-> NoKey]
    /\ UNCHANGED <<calibration, pc, i, results, heap, timestamp, _metric_dict,
                   err, muts, callerView>>

\* What a caller may do to a dict it holds: set a key, delete a key.
Q00 == <<0, 0>>
Q11 == <<1, 1>>
Mutations(bucket) ==
    { [kind |-> "set", k |-> <<Q11>>, v |-> <<9>>],
      [kind |-> "set", k |-> <<Q00>>, v |-> <<9, 9>>] }
    \cup { [kind |-> "del", k |-> x, v |-> <<>>] : x \in DOMAIN bucket }
ApplyMutation(bucket, m) ==
    IF m.kind = "set" THEN BucketSet(bucket, m.k, m.v) ELSE BucketDel(bucket, m.k)

\* The caller of calibration[key] changes the dict it was handed.
CallerMutate ==
    /\ pc = "built"
    /\ muts < MaxMutations
    /\ op.name = "getitem"
    /\ ret.kind = "ok"
    /\ \E m \in Mutations(heap[ret.val]) :
          /\ heap' = [heap EXCEPT ![ret.val] = ApplyMutation(@, m)]
          /\ callerView' = [name |-> op.key.v, bucket |-> ApplyMutation(heap[ret.val], m)]
    /\ muts' = muts + 1
    /\ op' = [name |-> "mutate", key |-> op.key]
    /\ UNCHANGED <<calibration, pc, i, results, timestamp, _metric_dict, err,
                   ret, it, yielded>>

Next ==
    \/ LoopStep
    \/ Return
    \/ \E key \in Keys : GetItem(key)
    \/ \E key \in Keys : Heatmap(key)
    \/ Size
    \/ Iterate
    \/ IterNext

Spec == Init /\ [][Next]_vars

\* The same program with a caller that changes the buckets it is handed.
InitAlias == Init /\ Len(calibration.metrics) <= MaxAliasRecords
NextAlias == Next \/ CallerMutate
SpecAlias == InitAlias /\ [][NextAlias]_vars
----------------------------------------------------------------------------
(* What the payload says, read off the records without running the code *)

metrics == calibration.metrics

\* The qubit a target string of the inputs names, once one leading q is dropped.
WellFormed(t) == t \in {T_q00, T_00, T_q01}
ExpectedQubit(t) ==
    CASE t = T_q00 -> <<0, 0>>
      [] t = T_00  -> <<0, 0>>
      [] t = T_q01 -> <<0, 1>>
      [] OTHER     -> <<-1, -1>>
\* The qubit tuple of a record; the empty tuple for a record without targets.
ExpectedTuple(m) ==
    IF m.hasTargets
    THEN [j \in 1..Len(m.targets) |-> ExpectedQubit(m.targets[j])]
    ELSE <<>>
\* The scalars of a values list of the inputs, tags dropped.
ExpectedFlat(vs) ==
    CASE vs = V_one -> <<321>>
      [] vs = V_two -> <<321, 7>>
      [] vs = V_alt -> <<7>>

RecordsNamed(n) == { j \in 1..Len(metrics) : metrics[j].name = n }
NamesIn == { metrics[j].name : j \in 1..Len(metrics) }
Last(S) == CHOOSE j \in S : \A k \in S : k <= j

\* Record k cannot be processed, the records before it having been processed.
RecordFails(k) ==
    IF metrics[k].hasTargets
    THEN \E j \in 1..Len(metrics[k].targets) : ~WellFormed(metrics[k].targets[j])
    ELSE \E j \in 1..(k - 1) : metrics[j].name = metrics[k].name

\* The names of the records, each at its first occurrence.
RECURSIVE FirstOccurrences(_)
FirstOccurrences(ms) ==
    IF ms = <<>> THEN <<>>
    ELSE LET front == FirstOccurrences(SubSeq(ms, 1, Len(ms) - 1))
             n == ms[Len(ms)].name
         IN  IF \E j \in 1..Len(front) : front[j] = n THEN front ELSE Append(front, n)

\* A bucket a heatmap can be made of.
ShapeOk(b) == \A k \in DOMAIN b : Len(k) = 1 /\ Len(b[k]) = 1

----------------------------------------------------------------------------
(* Claims *)

\* One loop pass over a record without targets.
C1_Step ==
    (pc = "loop" /\ i <= Len(metrics) /\ ~metrics[i].hasTargets) =>
        LET m == metrics[i]
            nonEmpty == /\ Contains(results, m.name)
                        /\ DOMAIN heap[Lookup(results, m.name)] # {}
        IN  IF nonEmpty
            THEN pc' = "failed" /\ err' = "AssertionError"
            ELSE /\ pc' = "loop"
                 /\ err' = "none"
                 /\ Contains(results', m.name)
                 /\ heap'[Lookup(results', m.name)] = (<<>> :> ExpectedFlat(m.values))
C1_NoTwoGlobals ==
    pc = "built" =>
        ~\E j, k \in 1..Len(metrics) :
            /\ j < k
            /\ ~metrics[j].hasTargets
            /\ ~metrics[k].hasTargets
            /\ metrics[j].name = metrics[k].name

\* C1: a record without targets fails with AssertionError (DuplicateGlobalMetric)
\* whenever the bucket of its name already holds an entry, whatever record
\* put it there; on an empty bucket its flattened values are stored under the
\* empty tuple. No payload with two target-less records of one name is built.
C1_DuplicateGlobalFails == [][C1_Step]_vars /\ []C1_NoTwoGlobals

\* A target-less record was refused because a targeted record of its name came first.
C1_Witness ==
    /\ pc = "failed"
    /\ err = "AssertionError"
    /\ i = 3
    /\ metrics[1].hasTargets
    /\ ~metrics[2].hasTargets
    /\ metrics[1].name = metrics[2].name

\* C2: on a built Calibration, the bucket get(name) returns for a name that
\* has a record without targets holds exactly one entry, keyed by the empty
\* tuple, whatever other records share the name.
C2_GlobalBucketSingle ==
    (/\ pc = "built"
     /\ op.name = "getitem"
     /\ ret.kind = "ok"
     /\ \E j \in RecordsNamed(op.key.v) : ~metrics[j].hasTargets)
    => DOMAIN heap[ret.val] = {<<>>}

\* C3: for a name that has a bucket, heatmap succeeds exactly when every key
\* of the bucket has length 1 and every value list has length 1; it then maps
\* each qubit to its value, one entry per bucket entry; otherwise it fails
\* with AssertionError (HeatmapShapeError).
C3_HeatmapIffSingle ==
    (/\ pc = "built"
     /\ op.name = "heatmap"
     /\ KeyIn(_metric_dict, op.key))
    => LET b == heap[Lookup(_metric_dict, op.key.v)]
       IN  IF ShapeOk(b)
           THEN /\ ret.kind = "ok"
                /\ DOMAIN ret.val = { k[1] : k \in DOMAIN b }
                /\ Cardinality(DOMAIN ret.val) = Cardinality(DOMAIN b)
                /\ \A k \in DOMAIN b : ret.val[k[1]] = b[k][1]
           ELSE ret.kind = "AssertionError"

\* A heatmap of two qubits with different values was returned.
C3_Witness ==
    /\ op.name = "heatmap"
    /\ ret.kind = "ok"
    /\ DOMAIN ret.val = {<<0, 0>>, <<0, 1>>}
    /\ ret.val[<<0, 0>>] = 7
    /\ ret.val[<<0, 1>>] = 321

\* C4: get(key) raises TypeError (InvalidKeyKind) for a key that is not a
\* string, whether or not it names a metric; raises KeyError (MetricNotFound)
\* for a string no record is named by; and otherwise returns the bucket of
\* that name.
C4_GetOutcomes ==
    (pc = "built" /\ op.name = "getitem") =>
        IF op.key.type # "str" THEN ret.kind = "TypeError"
        ELSE IF op.key.v \notin NamesIn THEN ret.kind = "KeyError"
        ELSE /\ ret.kind = "ok"
             /\ ret.val = Lookup(_metric_dict, op.key.v)

\* A key that is not a string was refused on a Calibration holding metrics.
C4_Witness ==
    /\ op.name = "getitem"
    /\ op.key.type = "int"
    /\ ret.kind = "TypeError"
    /\ Len(_metric_dict) = 2

\* C5: on a built Calibration, size is the number of distinct names of the
\* records, and there is one bucket per name.
C5_SizeIsDistinctNames ==
    pc = "built" =>
        /\ { _metric_dict[j][1] : j \in 1..Len(_metric_dict) } = NamesIn
        /\ \A j, k \in 1..Len(_metric_dict) :
              j # k => /\ _metric_dict[j][1] # _metric_dict[k][1]
                       /\ _metric_dict[j][2] # _metric_dict[k][2]
        /\ op.name = "len" => ret.val = Cardinality(NamesIn)

\* Three records under two names were counted as two.
C5_Witness ==
    /\ op.name = "len"
    /\ ret.val = 2
    /\ Len(metrics) = 3

\* C6: an iteration yields each metric name once, in the order of the names'
\* first occurrences in the records, and every iterator asked for starts at
\* the first name.
C6_IterationOrder ==
    (pc = "built" /\ it.active) =>
        LET F == FirstOccurrences(metrics)
        IN  /\ Len(yielded) <= Len(F)
            /\ yielded = SubSeq(F, 1, Len(yielded))
            /\ it.pos = Len(yielded)
            /\ \A j, k \in 1..Len(yielded) : j # k => yielded[j] # yielded[k]
            /\ (op.name = "next" /\ ret.kind = "ok") => ret.val = yielded[Len(yielded)]
            /\ (op.name = "next" /\ ret.kind = "StopIteration") => yielded = F

\* A second iterator ran to its end over names whose first one is repeated later.
C6_Witness ==
    /\ it.n = 2
    /\ op.name = "next"
    /\ ret.kind = "StopIteration"
    /\ yielded = <<"xeb", "t1">>
    /\ Len(metrics) = 3
    /\ metrics[3].name = "xeb"

QueryOps == {"getitem", "heatmap", "len", "iter", "next"}

\* One call of get, iterate, size or heatmap on a built Calibration.
C7_Step ==
    (pc = "built" /\ op'.name \in QueryOps) =>
        /\ timestamp' = timestamp
        /\ _metric_dict' = _metric_dict
        /\ heap' = heap
        /\ Len(_metric_dict') = Len(_metric_dict)
        /\ (op'.name = "getitem" /\ op' = op) => ret' = ret
        /\ (op'.name = "len" /\ op.name = "len") => ret' = ret

\* C7: get, iterate, size and heatmap calls, failing ones included, leave the
\* timestamp and the metrics mapping as they were: no bucket appears for an
\* absent name, and a repeated get or size returns what it returned before.
C7_QueriesReadOnly == [][C7_Step]_vars

\* A get of an absent name was refused on a Calibration of two metrics while
\* an iterator was open.
C7_Witness ==
    /\ pc = "built"
    /\ op.name = "getitem"
    /\ op.key = StrKey("absent")
    /\ ret.kind = "KeyError"
    /\ Len(_metric_dict) = 2
    /\ it.active

\* C8: when a record cannot be processed, wherever it stands, nothing is
\* built and nothing can be queried; construction ends with the record's own
\* exception, ValueError for a target the parser refuses.
C8_AllOrNothing ==
    /\ (\E k \in 1..Len(metrics) : RecordFails(k)) =>
          /\ pc # "built"
          /\ _metric_dict = <<>>
          /\ op = NoOp
          /\ ret = NoRet
    /\ pc = "failed" =>
          /\ RecordFails(i - 1)
          /\ err = (IF metrics[i - 1].hasTargets THEN "ValueError" ELSE "AssertionError")
    /\ pc # "failed" => err = "none"
    /\ op # NoOp => pc = "built"

\* The third record's target was refused by the parser after two records were processed.
C8_Witness ==
    /\ pc = "failed"
    /\ err = "ValueError"
    /\ i = 4
    /\ Len(results) = 2

\* C9: on a built Calibration the keys of a name's bucket are the qubit tuples
\* of the records of that name (one leading q dropped from each target, target
\* order kept), and the value under a tuple is the flattened values of the
\* last record with that name and tuple.
C9_BucketContents ==
    pc = "built" =>
        \A n \in Names :
            IF RecordsNamed(n) = {} THEN ~Contains(_metric_dict, n)
            ELSE /\ Contains(_metric_dict, n)
                 /\ LET b == heap[Lookup(_metric_dict, n)]
                    IN  /\ DOMAIN b = { ExpectedTuple(metrics[j]) : j \in RecordsNamed(n) }
                        /\ \A t \in DOMAIN b :
                              b[t] = ExpectedFlat(
                                  metrics[Last({ j \in RecordsNamed(n) :
                                      ExpectedTuple(metrics[j]) = t })].values)

\* A later record replaced the values of an earlier one with the same qubit,
\* written with and without the q, and a third record added the reverse of a pair.
C9_Witness ==
    /\ pc = "built"
    /\ Len(metrics) = 3
    /\ metrics[1] = Metric("t1", TRUE, <<T_q00>>, V_one)
    /\ metrics[2] = Metric("t1", TRUE, <<T_00>>, V_two)
    /\ metrics[3] = Metric("t1", TRUE, <<T_q01, T_q00>>, V_one)

\* C10: get hands out the Calibration's own bucket: what a caller wrote to a
\* bucket it was handed is what every later get and heatmap of that name
\* works on, while size and the names stay those of the records.
C10_BucketAliased ==
    pc = "built" =>
        /\ (op.name = "getitem" /\ ret.kind = "ok") =>
              /\ ret.val = Lookup(_metric_dict, op.key.v)
              /\ (muts > 0 /\ op.key.v = callerView.name) =>
                    heap[ret.val] = callerView.bucket
        /\ (op.name = "heatmap" /\ muts > 0 /\ op.key = StrKey(callerView.name)) =>
              IF ShapeOk(callerView.bucket)
              THEN /\ ret.kind = "ok"
                   /\ DOMAIN ret.val = { k[1] : k \in DOMAIN callerView.bucket }
                   /\ \A k \in DOMAIN callerView.bucket :
                         ret.val[k[1]] = callerView.bucket[k][1]
              ELSE ret.kind = "AssertionError"
        /\ KeySeq(_metric_dict) = FirstOccurrences(metrics)
        /\ op.name = "len" => ret.val = Cardinality(NamesIn)

\* A heatmap is refused for a metric whose only record is one qubit with one
\* value, after the caller wrote to the bucket it was handed.
C10_Witness ==
    /\ metrics = << Metric("t1", TRUE, <<T_q00>>, V_one) >>
    /\ muts = 1
    /\ op = [name |-> "heatmap", key |-> StrKey("t1")]
    /\ ret.kind = "AssertionError"
====
